---- MODULE Spec2Model ----
(***************************************************************************)
(* UART bridge (examples/uart-bridge/net.c): one serial port bridged to a  *)
(* TCP listener, a WebSocket listener and an MQTT client.                  *)
(*                                                                         *)
(* The handlers of net.c (tcp_fn, ws_fn, mq_fn, timer_fn, uart_bridge_fn,  *)
(* mqtt_rx_topic, mqtt_tx_topic) are operators over a record `s` holding   *)
(* the program state; every action of the model is one event the mongoose  *)
(* event loop delivers (or one timer tick) and runs the handler to         *)
(* completion.  The event loop itself (connection allocation, the          *)
(* connection list, which events exist and when they are delivered) is     *)
(* not part of net.c; it is modelled after its interface.                  *)
(***************************************************************************)
EXTENDS Integers, Sequences, FiniteSets, TLC

\* ------------------------------------------------------------------ bounds
\* Listening / primary connection objects available to each transport at once.
MaxPrimary == 2
\* Accepted client connection objects available to each listener at once.
MaxClients == 1
\* Longest payload of one serial read or one network data event.
MaxLen == 2
\* Longest address tried by the topic resolver's exhaustive inputs.
MaxUrlLen == 3
\* Longest recorded history of serial reads, and of network data events.
MaxHist == 2

\* ------------------------------------------------------------ constants
NULL == 0
\* char buf[512] of timer_fn
BUF_SIZE == 512
\* mg_timer_add(c->mgr, 20, ...)
TIMER_PERIOD == 20
\* s_state = {... .tx = 5, .rx = 4, .baud = 115200}
UART_TX == 5
UART_RX == 4
UART_BAUD == 115200

Transports == {"tcp", "websocket", "mqtt"}
\* The bridge never looks at the value of a byte, so payloads are told apart by
\* their lengths alone.
Bytes == {"x"}

DEFAULT_TCP == <<"t","c","p",":","/","/","0",".","0",".","0",".","0",":","4","0","0","1">>
DEFAULT_WEBSOCKET == <<"w","s",":","/","/","0",".","0",".","0",".","0",":","4","0","0","2">>
DEFAULT_MQTT == <<"m","q","t","t",":","/","/","b","r","o","k","e","r",".","h","i","v","e","m","q",".","c","o","m",":","1","8","8","3","?","t","x","=","b","/","t","x","&","r","x","=","b","/","r","x">>

\* The default topics "b/rx" and "b/tx" of the resolvers.
B_RX == <<"b", "/", "r", "x">>
B_TX == <<"b", "/", "t", "x">>

\* ------------------------------------------------------------------ state
VARIABLES
  url,        \* s_state.{tcp,websocket,mqtt}.url   (<<>> is the NULL pointer)
  enable,     \* s_state.{tcp,websocket,mqtt}.enable
  hc,         \* s_state.{tcp,websocket,mqtt}.c     (NULL or a connection id)
  conn,       \* the connection objects, by id (struct mg_connection)
  lst,        \* mgr->conns: the ids of the live connections (see SendToClients)
  timers,     \* number of timer_fn timers registered with the manager
  uart_inits, \* the uart_init calls made, in order
  ev,         \* the event the last step delivered
  starts,     \* start operations the last step issued   (mg_listen, ...)
  sent,       \* network sends the last step issued, per connection (c->send)
  uart,       \* uart_write calls the last step made
  subs,       \* mg_mqtt_sub calls the last step made
  tx_hist,    \* recorder of the serial reads and of what each connection was sent
  rx_hist     \* recorder of the data events and of the uart_write calls

vars ==
  <<url, enable, hc, conn, lst, timers, uart_inits, ev, starts, sent, uart, subs,
    tx_hist, rx_hist>>

\* Connection objects are named by numbers.  Object 1 is the HTTP listener of
\* the application; every other kind of connection draws its objects from a pool
\* of its own, so an allocation fails when the pool of that kind is used up.
Kinds == <<"tcp_fn", "ws_fn", "mq_fn">>
ClientKinds == <<"tcp_fn", "ws_fn">>
HTTP_ID == NULL + 1
PrimaryPool(fn) ==
  LET k == CHOOSE i \in 1..3 : Kinds[i] = fn
  IN (1 + (k - 1) * MaxPrimary + 1)..(1 + k * MaxPrimary)
ClientPool(fn) ==
  LET k == CHOOSE i \in 1..2 : ClientKinds[i] = fn
  IN (1 + 3 * MaxPrimary + (k - 1) * MaxClients + 1)..(1 + 3 * MaxPrimary + k * MaxClients)
\* One object serves the clients of the HTTP listener: they are never tagged and
\* the bridge keeps no reference to them.
HTTP_CLIENT == 1 + 3 * MaxPrimary + 2 * MaxClients + 1
Ids == 1..HTTP_CLIENT

\* A zeroed connection object (calloc in mg_alloc_conn).
ZeroConn ==
  [st |-> "free", fn |-> "none", is_listening |-> FALSE, is_client |-> FALSE,
   label |-> "", recv |-> <<>>, proto |-> "raw"]

\* The program state as one record, the shape the handlers work on.
St ==
  [url |-> url, enable |-> enable, hc |-> hc, conn |-> conn, lst |-> lst,
   timers |-> timers, uart_inits |-> uart_inits,
   starts |-> <<>>, sent |-> [i \in Ids |-> <<>>], uart |-> <<>>, subs |-> <<>>]

Set(s) ==
  /\ url' = s.url
  /\ enable' = s.enable
  /\ hc' = s.hc
  /\ conn' = s.conn
  /\ lst' = s.lst
  /\ timers' = s.timers
  /\ uart_inits' = s.uart_inits
  /\ starts' = s.starts
  /\ sent' = s.sent
  /\ uart' = s.uart
  /\ subs' = s.subs

\* The event delivered to connection c as it is in state s (c = NULL: a timer tick
\* or a configuration write, which belong to no connection).
Event(s, type, c, data, len) ==
  [type |-> type, c |-> c,
   fn |-> IF c = NULL THEN "none" ELSE s.conn[c].fn,
   is_listening |-> IF c = NULL THEN FALSE ELSE s.conn[c].is_listening,
   data |-> data, len |-> len]

\* ------------------------------------------------------------ sequences
RECURSIVE SeqsUpTo(_, _)
SeqsUpTo(S, n) ==
  IF n = 0 THEN {<<>>}
  ELSE LET shorter == SeqsUpTo(S, n - 1)
       IN shorter \cup {Append(q, x) : q \in shorter, x \in S}

Payloads == SeqsUpTo(Bytes, MaxLen) \ {<<>>}

\* ------------------------------------------------------------------ uart
\* uart_write(buf, len): one write of the whole buffer to the serial port.
uart_write(s, buf) == [s EXCEPT !.uart = Append(@, buf)]

\* uart_init(tx, rx, baud)
uart_init(s, tx, rx, baud) ==
  [s EXCEPT !.uart_inits = Append(@, [tx |-> tx, rx |-> rx, baud |-> baud])]

\* What uart_read(buf, sizeof(buf)) can return: an error, nothing, or bytes.
ReadResults ==
  {[len |-> -1, buf |-> <<>>], [len |-> 0, buf |-> <<>>]}
    \cup {[len |-> Len(b), buf |-> b] : b \in {p \in Payloads : Len(p) <= BUF_SIZE}}

\* ------------------------------------------------------- topic resolver
\* strchr(url, ','): index of the first comma, 0 when there is none.
strchr(str, ch) ==
  IF \E i \in 1..Len(str) : str[i] = ch
  THEN CHOOSE i \in 1..Len(str) : str[i] = ch /\ \A j \in 1..(i - 1) : str[j] # ch
  ELSE 0

\* strrchr(url, ','): index of the last comma, 0 when there is none.
strrchr(str, ch) ==
  IF \E i \in 1..Len(str) : str[i] = ch
  THEN CHOOSE i \in 1..Len(str) : str[i] = ch /\ \A j \in (i + 1)..Len(str) : str[j] # ch
  ELSE 0

\* mg_str(p): the NUL-terminated string that starts at p.
mg_str(str, p) == SubSeq(str, p, Len(str))

\* mg_str_n(p, n): n characters from p.
mg_str_n(str, p, n) == SubSeq(str, p, p + n - 1)

\* mqtt_rx_topic with "b/tx" as the default.
mqtt_rx_topic_default_tx(s) ==
  LET u == s.url["mqtt"]
      p == strrchr(u, ",")
  IN IF p # 0 THEN mg_str(u, p) ELSE B_TX

\* Extract RX topic name from the MQTT address
mqtt_rx_topic(s) ==
  LET u == s.url["mqtt"]
      p == strrchr(u, ",")
  IN IF p # 0 THEN mg_str(u, p) ELSE B_RX

\* mqtt_tx_topic with the length "p2 - p1" (the last comma left out).
mqtt_tx_topic_short(s) ==
  LET u == s.url["mqtt"]
      p1 == strchr(u, ",")
      p2 == strrchr(u, ",")
  IN IF p1 # 0 /\ p2 # 0 THEN mg_str_n(u, p1, p2 - p1) ELSE mg_str_n(B_TX, 1, 4)

\* Extract TX topic name from the MQTT address
mqtt_tx_topic(s) ==
  LET u == s.url["mqtt"]
      p1 == strchr(u, ",")
      p2 == strrchr(u, ",")
  IN IF p1 # 0 /\ p2 # 0 THEN mg_str_n(u, p1, p2 - p1 + 1) ELSE mg_str_n(B_TX, 1, 4)

\* ------------------------------------------------- the networking substrate
\* The first object of the pool that is not in use (NULL: out of memory).
FreeId(s, pool) ==
  IF \E i \in pool : s.conn[i].st # "live"
  THEN CHOOSE i \in pool : s.conn[i].st # "live"
                            /\ \A j \in pool : j < i => s.conn[j].st = "live"
  ELSE NULL

PoolOf(fn, listening) ==
  IF fn = "uart_bridge_fn" THEN (IF listening THEN {HTTP_ID} ELSE {HTTP_CLIENT})
  ELSE IF listening \/ fn = "mq_fn" THEN PrimaryPool(fn)
  ELSE ClientPool(fn)

\* mg_alloc_conn + LIST_ADD_HEAD: a zeroed object, linked into mgr->conns.
mg_alloc_conn(s, c, fn, listening, client) ==
  [s EXCEPT !.conn[c] = [ZeroConn EXCEPT !.st = "live", !.fn = fn,
                                         !.is_listening = listening, !.is_client = client],
            !.lst = @ \cup {c}]

SendOp(op, data, opcode, topic, qos, retain) ==
  [op |-> op, data |-> data, opcode |-> opcode, topic |-> topic,
   qos |-> qos, retain |-> retain]

\* mg_send(c, buf, len): raw bytes appended to the connection's output.
mg_send(s, c, buf, len) ==
  [s EXCEPT !.sent[c] = Append(@, SendOp("mg_send", SubSeq(buf, 1, len), "", <<>>, 0, FALSE))]

\* mg_ws_send(c, buf, len, op): one WebSocket frame.
mg_ws_send(s, c, buf, len, op) ==
  [s EXCEPT !.sent[c] = Append(@, SendOp("mg_ws_send", SubSeq(buf, 1, len), op, <<>>, 0, FALSE))]

\* mg_mqtt_pub(c, topic, data, qos, retain): one PUBLISH.
mg_mqtt_pub(s, c, topic, data, qos, retain) ==
  [s EXCEPT !.sent[c] = Append(@, SendOp("mg_mqtt_pub", data, "", topic, qos, retain))]

\* mg_mqtt_sub(c, topic, qos): one SUBSCRIBE.
mg_mqtt_sub(s, c, topic, qos) ==
  [s EXCEPT !.subs = Append(@, [c |-> c, topic |-> topic, qos |-> qos])]

\* mg_ws_upgrade(c, hm, NULL): a request that carries a WebSocket key turns the
\* connection into a WebSocket one (MG_EV_WS_OPEN follows); any other request is
\* answered 426 and the connection drains.
mg_ws_upgrade(s, c, hm) ==
  IF hm.ws_key THEN [s EXCEPT !.conn[c].proto = "ws"] ELSE s

\* mg_timer_add(mgr, 20, MG_TIMER_REPEAT, timer_fn, mgr)
mg_timer_add(s, period) == [s EXCEPT !.timers = @ + 1]

\* -------------------------------------------------------- event handlers
\* F applied to the value of x (x is evaluated once, as a C local is).
Let(x, F(_)) == CHOOSE r \in {F(v) : v \in {x}} : TRUE

\* ws_fn without the MG_EV_CLOSE branch.
ws_fn_ignores_close(s, c, e, evd) ==
  IF e = "MG_EV_HTTP_MSG" THEN mg_ws_upgrade(s, c, evd)
  ELSE IF e = "MG_EV_WS_OPEN" THEN [s EXCEPT !.conn[c].label = "W"]
  ELSE IF e = "MG_EV_WS_MSG" THEN
    [uart_write(s, evd.data) EXCEPT !.conn[c].recv = <<>>]
  ELSE s

\* ws_fn that writes a message to the UART in two pieces.
ws_fn_splits_payload(s, c, e, evd) ==
  IF e = "MG_EV_HTTP_MSG" THEN mg_ws_upgrade(s, c, evd)
  ELSE IF e = "MG_EV_WS_OPEN" THEN [s EXCEPT !.conn[c].label = "W"]
  ELSE IF e = "MG_EV_WS_MSG" THEN
    [uart_write(uart_write(s, SubSeq(evd.data, 1, 1)), SubSeq(evd.data, 2, Len(evd.data)))
       EXCEPT !.conn[c].recv = <<>>]
  ELSE IF e = "MG_EV_CLOSE" THEN
    IF s.conn[c].is_listening THEN [s EXCEPT !.hc["websocket"] = NULL] ELSE s
  ELSE s

\* Event handler for a connected Websocket client
ws_fn(s, c, e, evd) ==
  IF e = "MG_EV_HTTP_MSG" THEN mg_ws_upgrade(s, c, evd)
  ELSE IF e = "MG_EV_WS_OPEN" THEN [s EXCEPT !.conn[c].label = "W"]
  ELSE IF e = "MG_EV_WS_MSG" THEN
    [uart_write(s, evd.data) EXCEPT !.conn[c].recv = <<>>]
  ELSE IF e = "MG_EV_CLOSE" THEN
    IF s.conn[c].is_listening THEN [s EXCEPT !.hc["websocket"] = NULL] ELSE s
  ELSE s

\* tcp_fn without "c->recv.len = 0".
tcp_fn_keeps_recv(s, c, e, evd) ==
  IF e = "MG_EV_OPEN" THEN [s EXCEPT !.conn[c].label = "T"]
  ELSE IF e = "MG_EV_READ" THEN uart_write(s, s.conn[c].recv)
  ELSE IF e = "MG_EV_CLOSE" THEN
    IF s.conn[c].is_listening THEN [s EXCEPT !.hc["tcp"] = NULL] ELSE s
  ELSE s

\* tcp_fn without the "c->is_listening" test on MG_EV_CLOSE.
tcp_fn_any_close(s, c, e, evd) ==
  IF e = "MG_EV_OPEN" THEN [s EXCEPT !.conn[c].label = "T"]
  ELSE IF e = "MG_EV_READ" THEN
    [uart_write(s, s.conn[c].recv) EXCEPT !.conn[c].recv = <<>>]
  ELSE IF e = "MG_EV_CLOSE" THEN [s EXCEPT !.hc["tcp"] = NULL]
  ELSE s

\* Event handler for a connected TCP client
tcp_fn(s, c, e, evd) ==
  IF e = "MG_EV_OPEN" THEN [s EXCEPT !.conn[c].label = "T"]
  ELSE IF e = "MG_EV_READ" THEN
    [uart_write(s, s.conn[c].recv) EXCEPT !.conn[c].recv = <<>>]
  ELSE IF e = "MG_EV_CLOSE" THEN
    IF s.conn[c].is_listening THEN [s EXCEPT !.hc["tcp"] = NULL] ELSE s
  ELSE s

\* mq_fn without "s_state.mqtt.c = NULL" on MG_EV_CLOSE.
mq_fn_keeps_handle(s, c, e, evd) ==
  IF e = "MG_EV_OPEN" THEN [s EXCEPT !.conn[c].label = "M"]
  ELSE IF e = "MG_EV_MQTT_OPEN" THEN mg_mqtt_sub(s, c, mqtt_rx_topic(s), 1)
  ELSE IF e = "MG_EV_MQTT_MSG" THEN uart_write(s, evd.data)
  ELSE s

\* mq_fn that subscribes as soon as the connection is created.
mq_fn_subscribes_on_open(s, c, e, evd) ==
  IF e = "MG_EV_OPEN" THEN mg_mqtt_sub([s EXCEPT !.conn[c].label = "M"], c, mqtt_rx_topic(s), 1)
  ELSE IF e = "MG_EV_MQTT_OPEN" THEN mg_mqtt_sub(s, c, mqtt_rx_topic(s), 1)
  ELSE IF e = "MG_EV_MQTT_MSG" THEN uart_write(s, evd.data)
  ELSE IF e = "MG_EV_CLOSE" THEN [s EXCEPT !.hc["mqtt"] = NULL]
  ELSE s

\* Event handler for MQTT connection
mq_fn(s, c, e, evd) ==
  IF e = "MG_EV_OPEN" THEN [s EXCEPT !.conn[c].label = "M"]
  ELSE IF e = "MG_EV_MQTT_OPEN" THEN mg_mqtt_sub(s, c, mqtt_rx_topic(s), 1)
  ELSE IF e = "MG_EV_MQTT_MSG" THEN uart_write(s, evd.data)
  ELSE IF e = "MG_EV_CLOSE" THEN [s EXCEPT !.hc["mqtt"] = NULL]
  ELSE s

\* uart_bridge_fn without the "c->is_listening" test.
uart_bridge_fn_any_open(s, c, e, evd) ==
  IF e = "MG_EV_OPEN" THEN
    LET s1 == [s EXCEPT !.url = [tcp |-> DEFAULT_TCP, websocket |-> DEFAULT_WEBSOCKET,
                                 mqtt |-> DEFAULT_MQTT]]
        s2 == mg_timer_add(s1, TIMER_PERIOD)
    IN uart_init(s2, UART_TX, UART_RX, UART_BAUD)
  ELSE s

\* HTTP request handler function.  Its MG_EV_HTTP_MSG branch answers the request
\* (mg_http_reply, mg_http_serve_dir): it reads s_state and changes nothing of
\* the bridge.
uart_bridge_fn(s, c, e, evd) ==
  IF e = "MG_EV_OPEN" /\ s.conn[c].is_listening THEN
    LET s1 == [s EXCEPT !.url = [tcp |-> DEFAULT_TCP, websocket |-> DEFAULT_WEBSOCKET,
                                 mqtt |-> DEFAULT_MQTT]]
        s2 == mg_timer_add(s1, TIMER_PERIOD)
    IN uart_init(s2, UART_TX, UART_RX, UART_BAUD)
  ELSE s

\* mg_call(c, ev, ev_data): run the connection's handler.
mg_call(s, c, e, evd) ==
  Let(s, LAMBDA v :
    CASE v.conn[c].fn = "tcp_fn" -> tcp_fn(v, c, e, evd)
      [] v.conn[c].fn = "ws_fn" -> ws_fn(v, c, e, evd)
      [] v.conn[c].fn = "mq_fn" -> mq_fn(v, c, e, evd)
      [] v.conn[c].fn = "uart_bridge_fn" -> uart_bridge_fn(v, c, e, evd)
      [] OTHER -> v)

StartOp(op, u, fn, clean, will_qos, ret) ==
  [op |-> op, url |-> u, fn |-> fn, clean |-> clean, will_qos |-> will_qos, ret |-> ret]

\* mg_listen(mgr, url, fn, 0): NULL when the listener cannot be opened (ok is the
\* outcome of bind/listen) or no object can be allocated; otherwise the new
\* listening connection, which has already been given MG_EV_OPEN.
mg_listen(s, op, u, fn, ok) ==
  LET c == IF ok /\ u # <<>> THEN FreeId(s, PoolOf(fn, TRUE)) ELSE NULL
      s1 == [s EXCEPT !.starts = Append(@, StartOp(op, u, fn, FALSE, 0, c))]
  IN IF c = NULL THEN [s |-> s1, c |-> NULL]
     ELSE [s |-> mg_call(mg_alloc_conn(s1, c, fn, TRUE, FALSE), c, "MG_EV_OPEN", <<>>),
           c |-> c]

\* mg_http_listen(mgr, url, fn, 0): mg_listen plus the HTTP protocol handler.
mg_http_listen(s, u, fn, ok) == mg_listen(s, "mg_http_listen", u, fn, ok)

\* mg_mqtt_connect(mgr, url, &opts, fn, 0): NULL when no connection object can be
\* made; otherwise the new client connection, which has already been given
\* MG_EV_OPEN and is still connecting.
mg_mqtt_connect(s, u, opts, fn, ok) ==
  LET c == IF ok /\ u # <<>> THEN FreeId(s, PoolOf(fn, FALSE)) ELSE NULL
      s1 == [s EXCEPT !.starts =
               Append(@, StartOp("mg_mqtt_connect", u, fn, opts.clean, opts.will_qos, c))]
  IN IF c = NULL THEN [s |-> s1, c |-> NULL]
     ELSE [s |-> mg_call(mg_alloc_conn(s1, c, fn, FALSE, TRUE), c, "MG_EV_OPEN", <<>>),
           c |-> c]

\* ----------------------------------------------------------------- timer
\* "s_state.<t>.c = <start operation>": r is the state after the call and the
\* handle it returned.
StoreHandle(r, t) == Let(r, LAMBDA v : [v.s EXCEPT !.hc[t] = v.c])

\* StartTcp without the test of the handle.
StartTcp_ignores_handle(s, ok) ==
  IF s.enable["tcp"]
  THEN StoreHandle(mg_listen(s, "mg_listen", s.url["tcp"], "tcp_fn", ok["tcp"]), "tcp")
  ELSE s

\* timer_fn: if (s_state.tcp.c == NULL && s_state.tcp.enable) ...
StartTcp(s, ok) ==
  IF s.hc["tcp"] = NULL /\ s.enable["tcp"]
  THEN StoreHandle(mg_listen(s, "mg_listen", s.url["tcp"], "tcp_fn", ok["tcp"]), "tcp")
  ELSE s

\* StartWebsocket without the test of the enable flag.
StartWebsocket_ignores_enable(s, ok) ==
  IF s.hc["websocket"] = NULL
  THEN StoreHandle(mg_http_listen(s, s.url["websocket"], "ws_fn", ok["websocket"]),
                   "websocket")
  ELSE s

\* timer_fn: if (s_state.websocket.c == NULL && s_state.websocket.enable) ...
StartWebsocket(s, ok) ==
  IF s.hc["websocket"] = NULL /\ s.enable["websocket"]
  THEN StoreHandle(mg_http_listen(s, s.url["websocket"], "ws_fn", ok["websocket"]),
                   "websocket")
  ELSE s

\* StartMqtt without the test of the handle.
StartMqtt_always(s, ok) ==
  IF s.enable["mqtt"]
  THEN StoreHandle(mg_mqtt_connect(s, s.url["mqtt"], [clean |-> TRUE, will_qos |-> 1],
                                   "mq_fn", ok["mqtt"]), "mqtt")
  ELSE s

\* timer_fn: if (s_state.mqtt.c == NULL && s_state.mqtt.enable) ...
StartMqtt(s, ok) ==
  IF s.hc["mqtt"] = NULL /\ s.enable["mqtt"]
  THEN StoreHandle(mg_mqtt_connect(s, s.url["mqtt"], [clean |-> TRUE, will_qos |-> 1],
                                   "mq_fn", ok["mqtt"]), "mqtt")
  ELSE s

\* timer_fn, first half: "Start listeners if they're stopped for any reason".
StartListeners(s, ok) ==
  Let(StartTcp(s, ok), LAMBDA s1 :
    Let(StartWebsocket(s1, ok), LAMBDA s2 : StartMqtt(s2, ok)))

\* SendOne with the TCP write one byte short.
SendOne_tcp_short(s, c, buf, len) ==
  Let(IF s.conn[c].label = "W"
      THEN mg_ws_send(s, c, buf, len, "WEBSOCKET_OP_TEXT") ELSE s, LAMBDA s1 :
    Let(IF s1.conn[c].label = "T" THEN mg_send(s1, c, buf, len - 1) ELSE s1, LAMBDA s2 :
      IF s2.conn[c].label = "M"
      THEN mg_mqtt_pub(s2, c, mqtt_tx_topic(s2), SubSeq(buf, 1, len), 1, FALSE)
      ELSE s2))

\* timer_fn, the body of the loop over the connections: the three label tests.
SendOne(s, c, buf, len) ==
  Let(IF s.conn[c].label = "W"
      THEN mg_ws_send(s, c, buf, len, "WEBSOCKET_OP_TEXT") ELSE s, LAMBDA s1 :
    Let(IF s1.conn[c].label = "T" THEN mg_send(s1, c, buf, len) ELSE s1, LAMBDA s2 :
      IF s2.conn[c].label = "M"
      THEN mg_mqtt_pub(s2, c, mqtt_tx_topic(s2), SubSeq(buf, 1, len), 1, FALSE)
      ELSE s2))

\* timer_fn, the loop "Iterate over all connections. Send data to WS and TCP
\* clients": l is the part of mgr->conns still to visit.  Every send goes to
\* the output of its own connection, so the order of the visit is not
\* observable and the list is kept as the set of its members.
RECURSIVE SendToClients(_, _, _, _)
SendToClients(s, l, buf, len) ==
  IF l = {} THEN s
  ELSE LET c == CHOOSE x \in l : \A y \in l : x <= y
       IN Let([s |-> SendOne(s, c, buf, len), l |-> l \ {c}], LAMBDA v :
            SendToClients(v.s, v.l, buf, len))

\* timer_fn with "len != 0" as the test of the serial read.
timer_fn_sends_on_error(s, ok, rd) ==
  Let(StartListeners(s, ok), LAMBDA s1 :
    IF rd.len # 0 THEN SendToClients(s1, s1.lst, rd.buf, rd.len) ELSE s1)

\* timer_fn with the fan-out before the healing step.
timer_fn_fanout_first(s, ok, rd) ==
  Let(IF rd.len > 0 THEN SendToClients(s, s.lst, rd.buf, rd.len) ELSE s, LAMBDA s1 :
    StartListeners(s1, ok))

\* timer_fn with "len > 1" as the test of the serial read.
timer_fn_drops_single_byte(s, ok, rd) ==
  Let(StartListeners(s, ok), LAMBDA s1 :
    IF rd.len > 1 THEN SendToClients(s1, s1.lst, rd.buf, rd.len) ELSE s1)

\* Software timer with a frequency close to the scheduling time slot
timer_fn(s, ok, rd) ==
  Let(StartListeners(s, ok), LAMBDA s1 :
    IF rd.len > 0 THEN SendToClients(s1, s1.lst, rd.buf, rd.len) ELSE s1)

\* ------------------------------------------------------------ the program
HTTP_URL == <<"h","t","t","p",":","/","/","0",".","0",".","0",".","0",":","8","0","0","0">>

Live(c) == conn[c].st = "live"

\* ------------------------------------------------------------ recorders
\* The two recorders are observers: they are switched on by the initial state of
\* the specification that needs them and never change anything of the program.
TxOff == [on |-> FALSE, reads |-> <<>>, since |-> [c \in Ids |-> 0],
          out |-> [c \in Ids |-> <<>>]]
RxOff == [on |-> FALSE, events |-> <<>>, uart |-> <<>>]

\* The payloads of a sequence of sends.
PayloadsOf(ops) == [i \in DOMAIN ops |-> ops[i].data]

\* After a step: the non-empty serial reads so far (uart_read in timer_fn); for
\* every tagged connection the number of reads made before it was tagged and
\* the payloads it has been sent since; nothing for an untagged connection
\* unless the step sent it something.
RecTx ==
  IF ~tx_hist.on THEN tx_hist
  ELSE [on |-> TRUE,
        reads |-> IF ev'.type = "tick" /\ ev'.len > 0
                  THEN Append(tx_hist.reads, ev'.data) ELSE tx_hist.reads,
        since |-> [c \in Ids |->
                     IF conn'[c].label = "" THEN 0
                     ELSE IF conn[c].label = "" THEN Len(tx_hist.reads)
                     ELSE tx_hist.since[c]],
        out |-> [c \in Ids |->
                   IF conn'[c].label = "" \/ conn[c].label = "" THEN PayloadsOf(sent'[c])
                   ELSE tx_hist.out[c] \o PayloadsOf(sent'[c])]]

\* After a step: the data events delivered so far, with the connection and the
\* payload of each, and the buffers of the uart_write calls made so far.
RecRx ==
  IF ~rx_hist.on THEN rx_hist
  ELSE [on |-> TRUE,
        events |-> IF ev'.type \in {"MG_EV_READ", "MG_EV_WS_MSG", "MG_EV_MQTT_MSG"}
                   THEN Append(rx_hist.events, [c |-> ev'.c, data |-> ev'.data])
                   ELSE rx_hist.events,
        uart |-> rx_hist.uart \o uart']

Record == tx_hist' = RecTx /\ rx_hist' = RecRx

\* A recorder that is switched on has room for one more entry.
TxRoom == tx_hist.on => Len(tx_hist.reads) < MaxHist
RxRoom == rx_hist.on => Len(rx_hist.events) < MaxHist

Init ==
  /\ url = [t \in Transports |-> <<>>]
  /\ enable = [t \in Transports |-> TRUE]
  /\ hc = [t \in Transports |-> NULL]
  /\ conn = [i \in Ids |-> ZeroConn]
  /\ lst = {}
  /\ timers = 0
  /\ uart_inits = <<>>
  /\ ev = [type |-> "init", c |-> NULL, fn |-> "none", is_listening |-> FALSE,
           data |-> <<>>, len |-> 0]
  /\ starts = <<>>
  /\ sent = [i \in Ids |-> <<>>]
  /\ uart = <<>>
  /\ subs = <<>>
  /\ tx_hist = TxOff
  /\ rx_hist = RxOff

\* The application opens the HTTP listener whose handler is uart_bridge_fn; its
\* MG_EV_OPEN sets the addresses, registers the timer and initialises the UART.
Startup ==
  /\ \A c \in Ids : ~(Live(c) /\ conn[c].fn = "uart_bridge_fn")
  /\ \E r \in {mg_http_listen(St, HTTP_URL, "uart_bridge_fn", TRUE)} :
       /\ r.c # NULL
       /\ Set(r.s)
       /\ ev' = Event(r.s, "MG_EV_OPEN", r.c, <<>>, 0)
  /\ Record

\* Whether each start operation timer_fn issues succeeds (bind/listen/allocation
\* outcome); for a start that is not issued the outcome is immaterial.
StartOutcomes ==
  {ok \in [Transports -> BOOLEAN] :
     \A t \in Transports : ~(hc[t] = NULL /\ enable[t]) => ok[t]}

\* One expiry of the repeating timer: timer_fn runs to completion.
Tick(ok, rd) ==
  /\ timers > 0
  /\ rd.len > 0 => TxRoom
  /\ ev' = Event(St, "tick", NULL, rd.buf, rd.len)
  /\ \E s2 \in {timer_fn(St, ok, rd)} : Set(s2)
  /\ Record

\* A listener accepts a client: the new connection inherits the listener's
\* handler and is given MG_EV_OPEN.
Accept(l) ==
  /\ Live(l) /\ conn[l].is_listening
  /\ \E c \in {FreeId(St, PoolOf(conn[l].fn, FALSE))} :
       /\ c # NULL
       /\ \E s2 \in {mg_call(mg_alloc_conn(St, c, conn[l].fn, FALSE, FALSE),
                             c, "MG_EV_OPEN", <<>>)} :
            /\ Set(s2)
            /\ ev' = Event(s2, "MG_EV_OPEN", c, <<>>, 0)
  /\ Record

\* An HTTP request arrives on an accepted connection of the WebSocket listener
\* or of the HTTP listener; a successful upgrade is followed by MG_EV_WS_OPEN.
HttpMsg(c, key) ==
  /\ Live(c) /\ conn[c].fn \in {"ws_fn", "uart_bridge_fn"}
  /\ ~conn[c].is_listening /\ conn[c].proto = "raw"
  /\ \E s1 \in {mg_call(St, c, "MG_EV_HTTP_MSG", [ws_key |-> key])} :
     \E s2 \in {IF s1.conn[c].proto = "ws" THEN mg_call(s1, c, "MG_EV_WS_OPEN", <<>>)
                ELSE s1} :
       /\ Set(s2)
       /\ ev' = Event(s2, "MG_EV_HTTP_MSG", c, <<>>, 0)
  /\ Record

\* Bytes arrive on an accepted TCP connection: they are appended to c->recv and
\* MG_EV_READ is delivered.
TcpRead(c, data) ==
  /\ RxRoom
  /\ Live(c) /\ conn[c].fn = "tcp_fn" /\ ~conn[c].is_listening
  /\ Len(conn[c].recv) + Len(data) <= 2 * MaxLen
  /\ \E s2 \in {mg_call([St EXCEPT !.conn[c].recv = @ \o data], c, "MG_EV_READ", <<>>)} :
       /\ Set(s2)
       /\ ev' = Event(s2, "MG_EV_READ", c, data, Len(data))
  /\ Record

\* One WebSocket frame arrives: MG_EV_WS_MSG with the frame's payload, after
\* which the substrate removes the frame from c->recv.
WsMsg(c, data) ==
  /\ RxRoom
  /\ Live(c) /\ conn[c].fn = "ws_fn" /\ conn[c].proto = "ws"
  /\ Len(conn[c].recv) + Len(data) <= 2 * MaxLen
  /\ \E s2 \in {mg_call([St EXCEPT !.conn[c].recv = @ \o data], c, "MG_EV_WS_MSG",
                        [data |-> data])} :
       /\ Set([s2 EXCEPT !.conn[c].recv = SubSeq(@, Len(data) + 1, Len(@))])
       /\ ev' = Event(s2, "MG_EV_WS_MSG", c, data, Len(data))
  /\ Record

\* The broker accepts the session (CONNACK): MG_EV_MQTT_OPEN.
MqttOpen(c) ==
  /\ Live(c) /\ conn[c].fn = "mq_fn" /\ conn[c].proto = "raw"
  /\ \E s2 \in {mg_call([St EXCEPT !.conn[c].proto = "mqtt"], c, "MG_EV_MQTT_OPEN", <<>>)} :
       /\ Set(s2)
       /\ ev' = Event(s2, "MG_EV_MQTT_OPEN", c, <<>>, 0)
  /\ Record

\* The broker sends a PUBLISH: MG_EV_MQTT_MSG with its payload, after which the
\* substrate removes the packet from c->recv.
MqttMsg(c, data) ==
  /\ RxRoom
  /\ Live(c) /\ conn[c].fn = "mq_fn" /\ conn[c].proto = "mqtt"
  /\ Len(conn[c].recv) + Len(data) <= 2 * MaxLen
  /\ \E s2 \in {mg_call([St EXCEPT !.conn[c].recv = @ \o data], c, "MG_EV_MQTT_MSG",
                        [data |-> data])} :
       /\ Set([s2 EXCEPT !.conn[c].recv = SubSeq(@, Len(data) + 1, Len(@))])
       /\ ev' = Event(s2, "MG_EV_MQTT_MSG", c, data, Len(data))
  /\ Record

\* mg_close_conn without the unlinking from mgr->conns: the closed connection
\* stays on the list, label and all.
mg_close_conn_stays_listed(s, c) ==
  Let(mg_call(s, c, "MG_EV_CLOSE", <<>>), LAMBDA s2 : [s2 EXCEPT !.conn[c].st = "free"])

\* mg_close_conn(c): the connection is unlinked from mgr->conns, given
\* MG_EV_CLOSE, and its object is freed.
mg_close_conn(s, c) ==
  Let(mg_call([s EXCEPT !.lst = @ \ {c}], c, "MG_EV_CLOSE", <<>>), LAMBDA s2 :
    [s2 EXCEPT !.conn[c] = ZeroConn])

\* A connection closes (peer, error, or listener failure).  The application's
\* HTTP listener stays open for as long as the program runs.
Close(c) ==
  /\ Live(c) /\ c # HTTP_ID
  /\ \E s2 \in {mg_close_conn(St, c)} : Set(s2)
  /\ ev' = Event(St, "MG_EV_CLOSE", c, <<>>, 0)
  /\ Record

\* The configuration is written from outside: transport t is switched on or off.
ConfigWrite(t) ==
  /\ timers > 0
  /\ Set([St EXCEPT !.enable[t] = ~@])
  /\ ev' = Event(St, "config", NULL, <<>>, 0)
  /\ Record

Next ==
  \/ Startup
  \/ \E ok \in StartOutcomes, rd \in ReadResults : Tick(ok, rd)
  \/ \E l \in Ids : Accept(l)
  \/ \E c \in Ids, key \in BOOLEAN : HttpMsg(c, key)
  \/ \E c \in Ids, data \in Payloads : TcpRead(c, data)
  \/ \E c \in Ids, data \in Payloads : WsMsg(c, data)
  \/ \E c \in Ids : MqttOpen(c)
  \/ \E c \in Ids, data \in Payloads : MqttMsg(c, data)
  \/ \E c \in Ids : Close(c)
  \/ \E t \in Transports : ConfigWrite(t)

Spec == Init /\ [][Next]_vars

\* The timer is a repeating one (MG_TIMER_REPEAT): while it is registered, a tick
\* that changes the state is not postponed forever.
Ticks == \E ok \in StartOutcomes, rd \in ReadResults : Tick(ok, rd)

\* Transport t can be started: the timer is registered, the transport is enabled
\* and its handle is NULL (a start operation always has a free object to use).
CanStart(t) == timers > 0 /\ hc[t] = NULL /\ enable[t]

\* A tick in which the start operation of transport t succeeds.
Started(t) == CanStart(t) /\ ev'.type = "tick" /\ hc'[t] # NULL

\* The ticks are fair and, for each transport, a start operation that is tried
\* again and again does not fail for ever.
FairSpec ==
  /\ Init /\ [][Next]_vars
  /\ WF_vars(Ticks)
  /\ \A t \in Transports : (<>[]CanStart(t) => []<><<Started(t)>>_vars)

\* ------------------------------------------- the topic resolver's inputs
\* "mqtt://host:1883,topic/tx,topic/rx" and "mqtt://host:1883"
ADDR_TOPICS == <<"m","q","t","t",":","/","/","h","o","s","t",":","1","8","8","3",",","t","o","p","i","c","/","t","x",",","t","o","p","i","c","/","r","x">>
ADDR_HOST == <<"m","q","t","t",":","/","/","h","o","s","t",":","1","8","8","3">>
UrlChars == {",", "a"}
Addresses ==
  {DEFAULT_MQTT, ADDR_HOST, ADDR_TOPICS} \cup (SeqsUpTo(UrlChars, MaxUrlLen) \ {<<>>})

\* The bridge after its start-up, with the MQTT address set by the configuration.
InitTopics ==
  /\ url \in {[tcp |-> DEFAULT_TCP, websocket |-> DEFAULT_WEBSOCKET, mqtt |-> a] :
               a \in Addresses}
  /\ enable = [t \in Transports |-> t = "mqtt"]
  /\ hc = [t \in Transports |-> NULL]
  /\ conn = [i \in Ids |-> IF i = HTTP_ID
                            THEN [ZeroConn EXCEPT !.st = "live", !.fn = "uart_bridge_fn",
                                                  !.is_listening = TRUE]
                            ELSE ZeroConn]
  /\ lst = {HTTP_ID}
  /\ timers = 1
  /\ uart_inits = <<[tx |-> UART_TX, rx |-> UART_RX, baud |-> UART_BAUD]>>
  /\ ev = [type |-> "init", c |-> NULL, fn |-> "none", is_listening |-> FALSE,
           data |-> <<>>, len |-> 0]
  /\ starts = <<>>
  /\ sent = [i \in Ids |-> <<>>]
  /\ uart = <<>>
  /\ subs = <<>>
  /\ tx_hist = TxOff
  /\ rx_hist = RxOff

NextTopics ==
  \/ \E ok \in StartOutcomes, rd \in ReadResults : Tick(ok, rd)
  \/ \E c \in Ids : MqttOpen(c)
  \/ \E c \in Ids : Close(c)

TopicSpec == InitTopics /\ [][NextTopics]_vars

\* -------------------------------------------- the specifications with history
\* The bridge after its start-up, all three transports enabled.
Started0 ==
  /\ url = [tcp |-> DEFAULT_TCP, websocket |-> DEFAULT_WEBSOCKET, mqtt |-> DEFAULT_MQTT]
  /\ enable = [t \in Transports |-> TRUE]
  /\ hc = [t \in Transports |-> NULL]
  /\ conn = [i \in Ids |-> IF i = HTTP_ID
                            THEN [ZeroConn EXCEPT !.st = "live", !.fn = "uart_bridge_fn",
                                                  !.is_listening = TRUE]
                            ELSE ZeroConn]
  /\ lst = {HTTP_ID}
  /\ timers = 1
  /\ uart_inits = <<[tx |-> UART_TX, rx |-> UART_RX, baud |-> UART_BAUD]>>
  /\ ev = [type |-> "init", c |-> NULL, fn |-> "none", is_listening |-> FALSE,
           data |-> <<>>, len |-> 0]
  /\ starts = <<>>
  /\ sent = [i \in Ids |-> <<>>]
  /\ uart = <<>>
  /\ subs = <<>>

\* Serial-to-network: the reads and the sends are recorded.
InitOut == Started0 /\ tx_hist = [TxOff EXCEPT !.on = TRUE] /\ rx_hist = RxOff

NextOut ==
  \/ \E ok \in StartOutcomes, rd \in ReadResults : Tick(ok, rd)
  \/ \E l \in Ids : Accept(l)
  \/ \E c \in Ids, key \in BOOLEAN : HttpMsg(c, key)
  \/ \E c \in Ids : MqttOpen(c)
  \/ \E c \in Ids : Close(c)

OutSpec == InitOut /\ [][NextOut]_vars

\* Network-to-serial: the data events and the uart_write calls are recorded.
InitIn == Started0 /\ tx_hist = TxOff /\ rx_hist = [RxOff EXCEPT !.on = TRUE]

NextIn ==
  \/ \E ok \in StartOutcomes, rd \in ReadResults : Tick(ok, rd)
  \/ \E l \in Ids : Accept(l)
  \/ \E c \in Ids, key \in BOOLEAN : HttpMsg(c, key)
  \/ \E c \in Ids, data \in Payloads : TcpRead(c, data)
  \/ \E c \in Ids, data \in Payloads : WsMsg(c, data)
  \/ \E c \in Ids : MqttOpen(c)
  \/ \E c \in Ids, data \in Payloads : MqttMsg(c, data)
  \/ \E c \in Ids : Close(c)

InSpec == InitIn /\ [][NextIn]_vars

\* ======================================================== the properties
\* The handler and the start operation of each transport (timer_fn).
FnOf(t) == CASE t = "tcp" -> "tcp_fn" [] t = "websocket" -> "ws_fn" [] t = "mqtt" -> "mq_fn"
OpOf(t) ==
  CASE t = "tcp" -> "mg_listen" [] t = "websocket" -> "mg_http_listen"
    [] t = "mqtt" -> "mg_mqtt_connect"

\* The start operations of transport t in a log of start operations.
StartsFor(log, t) == {i \in DOMAIN log : log[i].fn = FnOf(t) /\ log[i].op = OpOf(t)}

DataEvents == {"MG_EV_READ", "MG_EV_WS_MSG", "MG_EV_MQTT_MSG"}

\* C1: a tick issues exactly one start operation for every transport that is
\* enabled and whose handle is NULL before the tick, none for any other transport
\* (so none for one that is already up, however often the tick runs), and no
\* start operation besides these.
C1_TickStartsEachDownTransportOnce ==
  [][ev'.type = "tick" =>
       /\ \A t \in Transports :
            Cardinality(StartsFor(starts', t)) = IF enable[t] /\ hc[t] = NULL THEN 1 ELSE 0
       /\ Len(starts') = Cardinality({t \in Transports : enable[t] /\ hc[t] = NULL})]_vars

\* C1 witness: a tick that started MQTT alone, the TCP and WebSocket listeners
\* being up already and left alone.
C1_Witness ==
  /\ ev.type = "tick"
  /\ Len(starts) = 1 /\ starts[1].op = "mg_mqtt_connect" /\ starts[1].ret # NULL
  /\ hc["tcp"] # NULL /\ hc["websocket"] # NULL /\ hc["mqtt"] = starts[1].ret

\* C2: after a tick whose serial read returned len > 0 bytes, every connection
\* holds exactly what its label asks for: 'W' one text frame, 'T' one raw write,
\* 'M' one publish to "b/tx" (the TX topic of the default address) at QoS 1, not
\* retained, each carrying exactly the len bytes read; an unlabelled connection
\* holds nothing.
C2_FanOutExactlyOncePerLabel ==
  (ev.type = "tick" /\ ev.len > 0) =>
    /\ Len(ev.data) = ev.len
    /\ \A c \in Ids :
         sent[c] =
           IF conn[c].label = "W"
           THEN <<SendOp("mg_ws_send", ev.data, "WEBSOCKET_OP_TEXT", <<>>, 0, FALSE)>>
           ELSE IF conn[c].label = "T"
           THEN <<SendOp("mg_send", ev.data, "", <<>>, 0, FALSE)>>
           ELSE IF conn[c].label = "M"
           THEN <<SendOp("mg_mqtt_pub", ev.data, "", B_TX, 1, FALSE)>>
           ELSE <<>>

\* C2 witness: a two-byte read fanned out to an accepted TCP client, a WebSocket
\* client and the MQTT connection at once.
C2_Witness ==
  /\ ev.type = "tick" /\ ev.len = 2
  /\ \E c \in ClientPool("tcp_fn") : Len(sent[c]) = 1 /\ sent[c][1].op = "mg_send"
  /\ \E c \in ClientPool("ws_fn") : Len(sent[c]) = 1 /\ sent[c][1].op = "mg_ws_send"
  /\ \E c \in PrimaryPool("mq_fn") : Len(sent[c]) = 1 /\ sent[c][1].op = "mg_mqtt_pub"

\* C3: every data event (TCP read, WebSocket message, MQTT message) makes exactly
\* one uart_write, of exactly the payload the event delivered, and leaves nothing
\* buffered in the connection; no other step writes to the serial port.
C3_PayloadWrittenOnce ==
  /\ ev.type \in DataEvents => (uart = <<ev.data>> /\ conn[ev.c].recv = <<>>)
  /\ ev.type \notin DataEvents => uart = <<>>

\* C3 witness: a two-byte TCP read written to the serial port.
C3_Witness ==
  ev.type = "MG_EV_READ" /\ ev.len = 2 /\ uart = <<ev.data>>

\* Transport t is up: its handle names a live connection of that transport.
Up(t) == hc[t] # NULL /\ conn[hc[t]].st = "live" /\ conn[hc[t]].fn = FnOf(t)

\* C4: every tick issues a start operation for every enabled transport that is
\* not up, however many ticks have already tried (there is no retry limit and no
\* back-off); and, the tick being fair, an enabled transport that is down is
\* eventually up again (or switched off), given that its start operations do not
\* fail for ever.
C4_SelfHealing ==
  /\ [][ev'.type = "tick" =>
          \A t \in Transports : (enable[t] /\ ~Up(t)) => StartsFor(starts', t) # {}]_vars
  /\ \A t \in Transports :
       (timers > 0 /\ enable[t] /\ ~Up(t)) ~> (Up(t) \/ ~enable[t])

\* C4 witness: a tick restarts the TCP listener after it was dropped (a client
\* that the earlier listener accepted is still connected).
C4_Witness ==
  /\ ev.type = "tick"
  /\ \E i \in StartsFor(starts, "tcp") : starts[i].ret # NULL /\ hc["tcp"] = starts[i].ret
  /\ \E c \in ClientPool("tcp_fn") : conn[c].st = "live"

\* C5: a tick issues no start operation for a transport whose enable flag is
\* false, whatever happened before (so also after the transport was up, was
\* switched off and lost its connection).
C5_DisabledNeverStarted ==
  ev.type = "tick" => \A t \in Transports : ~enable[t] => StartsFor(starts, t) = {}

\* C5 witness: a tick finds the WebSocket transport switched off and down, a
\* client that its earlier listener accepted still connected, and starts nothing
\* for it.
C5_Witness ==
  /\ ev.type = "tick"
  /\ ~enable["websocket"] /\ hc["websocket"] = NULL
  /\ \E c \in ClientPool("ws_fn") : Live(c)
  /\ StartsFor(starts, "websocket") = {}

\* C6: whatever a step sends (raw write, frame or publish) goes to a connection
\* that is on the manager's list and whose close event has not been delivered;
\* a connection that has been closed is sent nothing by any later tick.
C6_NoSendAfterClose ==
  \A c \in Ids : sent[c] # <<>> => (Live(c) /\ c \in lst)

\* C6 witness: a broadcast after the TCP listener was closed: the transport is
\* switched off and down, every listener object is closed and is sent nothing,
\* and the client that the listener had accepted gets the data.
C6_Witness ==
  /\ ev.type = "tick" /\ ev.len > 0
  /\ ~enable["tcp"] /\ hc["tcp"] = NULL
  /\ \A l \in PrimaryPool("tcp_fn") : ~Live(l) /\ sent[l] = <<>>
  /\ \E c \in ClientPool("tcp_fn") : Live(c) /\ sent[c] # <<>>

\* The handshake of connection c is complete: the WebSocket upgrade is done, the
\* MQTT session is established, the TCP client is connected.
HandshakeDone(c) ==
  CASE conn[c].fn = "ws_fn" -> conn[c].proto = "ws"
    [] conn[c].fn = "mq_fn" -> conn[c].proto = "mqtt"
    [] OTHER -> TRUE

\* C7: fan-out sends serial data only to connections whose handshake is complete;
\* a connection that is still in its handshake is skipped.
C7_HandshakeSkipped ==
  \A c \in Ids : sent[c] # <<>> => HandshakeDone(c)

\* C8: for each transport the handle is non-NULL only while it names the
\* transport's own listener / primary connection and that connection has not been
\* closed; once the close event of that connection is handled the handle is NULL.
C8_HandleOnlyWhileLive ==
  /\ \A t \in Transports :
       hc[t] # NULL =>
         /\ Live(hc[t]) /\ hc[t] \in lst
         /\ conn[hc[t]].fn = FnOf(t)
         /\ IF t = "mqtt" THEN conn[hc[t]].is_client ELSE conn[hc[t]].is_listening
  /\ \A t \in Transports :
       (ev.type = "MG_EV_CLOSE" /\ ev.fn = FnOf(t) /\ (t = "mqtt" \/ ev.is_listening))
         => hc[t] = NULL

\* C8 witness: the WebSocket listener has just been closed and its handle is
\* NULL, while the TCP listener is still up.
C8_Witness ==
  /\ ev.type = "MG_EV_CLOSE" /\ ev.fn = "ws_fn" /\ ev.is_listening
  /\ hc["websocket"] = NULL /\ hc["tcp"] # NULL

\* C9: a handle changes only in a tick, from NULL to the connection the start
\* operation of its transport returned, or in the close event of the connection
\* it names, to NULL.  Every other step (the close of an accepted client, an
\* open, a data event, an upgrade, an MQTT session event, a tick that starts
\* nothing) leaves the three handles as they were.
C9_HandleFrame ==
  [][/\ \A t \in Transports :
          hc'[t] # hc[t] =>
            \/ /\ ev'.type = "tick" /\ hc[t] = NULL /\ enable[t]
               /\ \E i \in StartsFor(starts', t) : starts'[i].ret = hc'[t]
            \/ /\ ev'.type = "MG_EV_CLOSE" /\ ev'.c = hc[t] /\ hc'[t] = NULL
     /\ ev'.type \notin {"tick", "MG_EV_CLOSE"} => hc' = hc
     /\ (ev'.type = "MG_EV_CLOSE" /\ ev'.fn \in {"tcp_fn", "ws_fn"} /\ ~ev'.is_listening)
          => hc' = hc
     /\ (ev'.type = "tick" /\ starts' = <<>>) => hc' = hc]_vars

\* C9 witness: an accepted TCP client has just been closed and the handle of the
\* TCP listener still names the live listener.
C9_Witness ==
  /\ ev.type = "MG_EV_CLOSE" /\ ev.fn = "tcp_fn" /\ ~ev.is_listening
  /\ hc["tcp"] # NULL /\ Live(hc["tcp"])

\* "topic/rx" and "topic/tx,topic/rx"
TOPIC_RX == <<"t","o","p","i","c","/","r","x">>
TOPIC_TX_RX == <<"t","o","p","i","c","/","t","x",",","t","o","p","i","c","/","r","x">>

\* C10: with the address "mqtt://host:1883,topic/tx,topic/rx" every subscribe is
\* to the RX topic "topic/rx" and every publish is to the TX topic
\* "topic/tx,topic/rx".
C10_ResolverExample ==
  url["mqtt"] = ADDR_TOPICS =>
    /\ \A i \in DOMAIN subs : subs[i].topic = TOPIC_RX
    /\ \A c \in Ids : \A i \in DOMAIN sent[c] :
         sent[c][i].op = "mg_mqtt_pub" => sent[c][i].topic = TOPIC_TX_RX

\* The positions of the commas of an address.
Commas(u) == {i \in 1..Len(u) : u[i] = ","}

\* C11: with an MQTT address that has no comma (the default address,
\* "mqtt://host:1883", or any other text) every subscribe is to "b/rx" and every
\* publish is to "b/tx": the resolver falls back to its defaults and never fails.
C11_NoCommaDefaults ==
  Commas(url["mqtt"]) = {} =>
    /\ \A i \in DOMAIN subs : subs[i].topic = B_RX
    /\ \A c \in Ids : \A i \in DOMAIN sent[c] :
         sent[c][i].op = "mg_mqtt_pub" => sent[c][i].topic = B_TX

\* C11 witness: with the address "mqtt://host:1883" the session is established
\* and the subscribe goes to "b/rx".
C11_Witness ==
  /\ url["mqtt"] = ADDR_HOST
  /\ ev.type = "MG_EV_MQTT_OPEN"
  /\ Len(subs) = 1 /\ subs[1].topic = B_RX

\* C12: the step that delivers MG_EV_MQTT_OPEN issues exactly one subscribe, on
\* the connection whose session was established, to the RX topic the resolver
\* gives for the current MQTT address, at QoS 1; no other step subscribes (so
\* nothing is subscribed before the session is established, and every
\* re-established session is subscribed again).
C12_SubscribeOncePerSession ==
  /\ ev.type = "MG_EV_MQTT_OPEN" =>
       subs = <<[c |-> ev.c, topic |-> mqtt_rx_topic(St), qos |-> 1]>>
  /\ ev.type # "MG_EV_MQTT_OPEN" => subs = <<>>

\* C12 witness: a session is established with the address
\* "mqtt://host:1883,topic/tx,topic/rx" and one subscribe at QoS 1 is issued.
C12_Witness ==
  /\ url["mqtt"] = ADDR_TOPICS
  /\ ev.type = "MG_EV_MQTT_OPEN" /\ ev.c = hc["mqtt"]
  /\ Len(subs) = 1 /\ subs[1].qos = 1 /\ subs[1].c = ev.c

\* C13: a tick whose serial read returns zero or a negative length sends nothing
\* to any connection and leaves the bridge exactly as the healing step alone
\* leaves it, the same for an error as for an empty read; the timer stays
\* registered, so later ticks read and broadcast again.
C13_EmptyOrErrorReadSendsNothing ==
  [][(ev'.type = "tick" /\ ev'.len <= 0) =>
       /\ \A c \in Ids : sent'[c] = <<>>
       /\ uart' = <<>> /\ subs' = <<>>
       /\ url' = url /\ enable' = enable /\ timers' = timers /\ uart_inits' = uart_inits
       /\ \E ok \in StartOutcomes : \E h \in {StartListeners(St, ok)} :
            conn' = h.conn /\ hc' = h.hc /\ lst' = h.lst /\ starts' = h.starts]_vars

\* C13 witness: the serial read fails (-1) in a tick that restarts a transport,
\* while a tagged TCP client is connected and is sent nothing.
C13_Witness ==
  /\ ev.type = "tick" /\ ev.len = -1
  /\ starts # <<>>
  /\ \E c \in ClientPool("tcp_fn") : Live(c) /\ conn[c].label = "T" /\ sent[c] = <<>>

\* The first and the last comma of an address that has one.
FirstComma(u) == CHOOSE i \in Commas(u) : \A j \in Commas(u) : i <= j
LastComma(u) == CHOOSE i \in Commas(u) : \A j \in Commas(u) : j <= i

\* C15: with an MQTT address that has a comma, every publish goes to the part of
\* the address from its first comma to its last comma, both included (last -
\* first + 1 characters), which is "," when there is exactly one comma; a publish
\* goes to "b/tx" only with an address that has no comma.
C15_TxFirstToLastComma ==
  \A c \in Ids : \A i \in DOMAIN sent[c] :
    sent[c][i].op = "mg_mqtt_pub" =>
      LET u == url["mqtt"]
          topic == sent[c][i].topic
      IN /\ Commas(u) # {} =>
              /\ topic = [k \in 1..(LastComma(u) - FirstComma(u) + 1) |->
                            u[FirstComma(u) + k - 1]]
              /\ Len(topic) = LastComma(u) - FirstComma(u) + 1
              /\ topic[1] = "," /\ topic[Len(topic)] = ","
         /\ Cardinality(Commas(u)) = 1 => topic = <<",">>
         /\ topic = B_TX <=> Commas(u) = {}

\* C15 witness: the address "a,a" has one comma and the publish goes to ",".
C15_Witness ==
  /\ url["mqtt"] = <<"a", ",", "a">>
  /\ \E c \in Ids : Len(sent[c]) = 1 /\ sent[c][1].op = "mg_mqtt_pub"
                    /\ sent[c][1].topic = <<",">>

\* C14: a tick heals first, then reads the serial port once (at most 512 bytes),
\* then sends: a tagged connection that the tick itself started is already sent
\* the bytes of the tick's read; everything a tick sends is exactly the bytes that
\* tick read, once per connection; and no step that is not a tick sends anything,
\* so no serial bytes are held back for later.
C14_TickHealsReadsSends ==
  /\ ev.type = "tick" =>
       /\ ev.len <= BUF_SIZE
       /\ \A c \in Ids :
            /\ Len(sent[c]) <= 1
            /\ \A i \in DOMAIN sent[c] :
                 ev.len > 0 /\ Len(ev.data) = ev.len /\ sent[c][i].data = ev.data
       /\ \A i \in DOMAIN starts :
            (ev.len > 0 /\ starts[i].ret # NULL /\ conn[starts[i].ret].label # "")
              => sent[starts[i].ret] # <<>>
  /\ ev.type # "tick" => \A c \in Ids : sent[c] = <<>>

\* C14 witness: one tick connects the MQTT client and reads two bytes; the new
\* connection and a TCP client that was already connected both get those bytes.
C14_Witness ==
  /\ ev.type = "tick" /\ ev.len = 2
  /\ \E i \in StartsFor(starts, "mqtt") :
       starts[i].ret # NULL /\ sent[starts[i].ret] # <<>>
  /\ \E c \in ClientPool("tcp_fn") : Len(sent[c]) = 1 /\ sent[c][1].data = ev.data

\* C16: the serial port is initialised once, with the configured pins and baud
\* rate, and the timer is registered once, both by the start-up step that also
\* sets the three default addresses; before that step there is no tick, no start
\* operation, no send and no subscribe, and every tick finds the addresses set
\* and the serial port initialised.
C16_StartupOnce ==
  /\ Len(uart_inits) <= 1 /\ timers = Len(uart_inits)
  /\ ev.type # "init" =>
       /\ uart_inits = <<[tx |-> UART_TX, rx |-> UART_RX, baud |-> UART_BAUD]>>
       /\ url = [tcp |-> DEFAULT_TCP, websocket |-> DEFAULT_WEBSOCKET, mqtt |-> DEFAULT_MQTT]
  /\ ev.type = "init" =>
       /\ timers = 0 /\ starts = <<>> /\ subs = <<>> /\ uart = <<>>
       /\ \A c \in Ids : sent[c] = <<>>
  /\ ev.type = "tick" => (timers > 0 /\ \A t \in Transports : url[t] # <<>>)

\* C16 witness: the HTTP listener accepts a client after the start-up; the
\* handler runs again for the client's MG_EV_OPEN and initialises nothing anew.
C16_Witness ==
  /\ ev.type = "MG_EV_OPEN" /\ ev.fn = "uart_bridge_fn" /\ ~ev.is_listening
  /\ Len(uart_inits) = 1 /\ timers = 1

\* C17: whatever a step sends goes to a client connection of one of the three
\* transports: never to a listening connection, never to the HTTP listener or to
\* a connection it accepted.
C17_SendsOnlyToClients ==
  \A c \in Ids :
    sent[c] # <<>> =>
      /\ ~conn[c].is_listening
      /\ conn[c].fn \in {"tcp_fn", "ws_fn", "mq_fn"}

\* The live listener / primary connections of transport t.
Primaries(t) ==
  {c \in Ids : /\ Live(c) /\ conn[c].fn = FnOf(t)
               /\ (conn[c].is_listening \/ conn[c].is_client)}

\* C18: each transport has at most one live listener / primary connection, and
\* when it has one its handle names it.
C18_AtMostOnePrimary ==
  \A t \in Transports :
    /\ Cardinality(Primaries(t)) <= 1
    /\ \A c \in Primaries(t) : hc[t] = c

\* C18 witness: a tick in which the start of the WebSocket listener fails, while
\* the TCP listener and the MQTT connection are up, one of each.
C18_Witness ==
  /\ ev.type = "tick"
  /\ \E i \in StartsFor(starts, "websocket") : starts[i].ret = NULL
  /\ Cardinality(Primaries("tcp")) = 1 /\ Cardinality(Primaries("mqtt")) = 1
  /\ Primaries("websocket") = {}

\* C19: a tagged connection has been sent, since it was tagged, exactly the
\* non-empty serial reads made since then, one payload per read, in the order of
\* the reads; so two connections tagged over the same span have been sent the
\* same sequence.
C19_SerialOrderPerClient ==
  /\ \A c \in Ids :
       conn[c].label # "" =>
         tx_hist.out[c] = SubSeq(tx_hist.reads, tx_hist.since[c] + 1, Len(tx_hist.reads))
  /\ \A c, d \in Ids :
       (conn[c].label # "" /\ conn[d].label # "" /\ tx_hist.since[c] = tx_hist.since[d])
         => tx_hist.out[c] = tx_hist.out[d]

\* C19 witness: two reads, of two bytes and then of one byte; a TCP client tagged
\* before both has been sent both in that order, and a WebSocket client tagged
\* between them has been sent the second alone.
C19_Witness ==
  /\ tx_hist.reads = << <<"x", "x">>, <<"x">> >>
  /\ \E c \in ClientPool("tcp_fn") :
       conn[c].label = "T" /\ tx_hist.out[c] = << <<"x", "x">>, <<"x">> >>
  /\ \E c \in ClientPool("ws_fn") :
       conn[c].label = "W" /\ tx_hist.out[c] = << <<"x">> >>

\* The entries of a sequence of data events that belong to connection c.
RECURSIVE EventsOf(_, _)
EventsOf(events, c) ==
  IF events = <<>> THEN <<>>
  ELSE IF events[1].c = c THEN <<events[1].data>> \o EventsOf(Tail(events), c)
  ELSE EventsOf(Tail(events), c)

\* C20: every data event is written to the serial port as one uart_write of its
\* whole payload, and the writes are made in the order the events were
\* delivered; so the payloads of one client reach the serial port whole and in
\* that client's order, never mixed with bytes of another client.
C20_FanInWholeAndOrdered ==
  /\ Len(rx_hist.uart) = Len(rx_hist.events)
  /\ \A i \in DOMAIN rx_hist.events : rx_hist.uart[i] = rx_hist.events[i].data
  /\ \A c \in Ids :
       EventsOf(rx_hist.events, c) =
         EventsOf([i \in DOMAIN rx_hist.events |->
                     [c |-> rx_hist.events[i].c,
                      data |-> IF i \in DOMAIN rx_hist.uart THEN rx_hist.uart[i] ELSE <<>>]], c)

\* C20 witness: a WebSocket client sends one byte and then a TCP client sends two
\* bytes; the serial port was written the one byte and then the two bytes.
C20_Witness ==
  /\ Len(rx_hist.events) = 2
  /\ conn[rx_hist.events[1].c].fn = "ws_fn" /\ conn[rx_hist.events[2].c].fn = "tcp_fn"
  /\ rx_hist.uart = << <<"x">>, <<"x", "x">> >>

====
